---- MODULE Spec2Model ----
(***************************************************************************)
(* A model of scrape-nfl-stats.py: the Scraper (scrape_site, get_page,     *)
(* save_player_profile, save_player_game_stats, condense_data) and the     *)
(* Player (scrape_profile, scrape_player_stats, scrape_season_gamelog,     *)
(* make_player_game_stats, get_seasons_with_stats).                        *)
(*                                                                         *)
(* Python values are records [t, s, n]: t names the type, s holds a text   *)
(* (a tuple of strings: characters or tokens), n holds a number (a float   *)
(* m / 10^d is held as n = m with d decimals).  A text read from a page is *)
(* a tuple of strings; an empty tuple stands for "the element is not       *)
(* there".                                                                 *)
(***************************************************************************)
EXTENDS Integers, Sequences, FiniteSets, Bags, TLC

VARIABLES
    first_player_id, \* Scraper.first_player_id
    clear_old_data, \* Scraper.clear_old_data
    pc,             \* position in scrape_site
    exc,            \* the exception that is propagating ("none" when none)
    raised_at,      \* the position at which the propagating exception was raised
    letter_idx,     \* index of the letter being scraped (1-based)
    urls_left,      \* player_profile_urls still to visit in the current letter
    player_id,      \* scrape_site's local player_id
    player,         \* the current Player object
    seasons_left,   \* scrape_player_stats: the seasons still to iterate
    session,        \* identity of self.session
    retry_count,    \* get_page: retry_count of the innermost call
    gp_attempts,    \* the GET attempts of the current get_page(url): session, outcome
    gp_result,      \* how the current/last get_page(url) ended
    response,       \* the response the last successful GET returned
    profile_dir,    \* PROFILE_DIR: file name -> decoded JSON content
    stats_dir,      \* STATS_DIR: file name -> decoded JSON content
    profiles_out,   \* content of profiles_<time>.json (NotWritten before)
    games_out,      \* content of games_<time>.json (NotWritten before)
    visited,        \* history: the Player objects constructed, in order
    persisted,      \* history: [visit, id] of every save_player_profile that wrote
    fetched         \* history: the URLs get_page was called with for the current player

vars == <<first_player_id, clear_old_data, pc, exc, raised_at, letter_idx,
          urls_left, player_id, player,
          seasons_left, session, retry_count, gp_attempts, gp_result, response,
          profile_dir, stats_dir, profiles_out, games_out, visited,
          persisted, fetched>>

----------------------------------------------------------------------------
(* Python values *)

None == [t |-> "none", s |-> <<>>, n |-> 0, d |-> 0]
PyStr(text) == [t |-> "str", s |-> text, n |-> 0, d |-> 0]
PyInt(k) == [t |-> "int", s |-> <<>>, n |-> k, d |-> 0]
PyBool(b) == [t |-> "bool", s |-> <<>>, n |-> IF b THEN 1 ELSE 0, d |-> 0]
\* The float m / 10^d, with no trailing zero in its d decimals.
RECURSIVE PyFloat(_, _)
PyFloat(m, d) ==
    IF d > 0 /\ m % 10 = 0 THEN PyFloat(m \div 10, d - 1)
    ELSE [t |-> "float", s |-> <<>>, n |-> m, d |-> d]

DigitChars == {"0", "1", "2", "3", "4", "5", "6", "7", "8", "9"}

DigitValue(c) ==
    CASE c = "0" -> 0 [] c = "1" -> 1 [] c = "2" -> 2 [] c = "3" -> 3
      [] c = "4" -> 4 [] c = "5" -> 5 [] c = "6" -> 6 [] c = "7" -> 7
      [] c = "8" -> 8 [] c = "9" -> 9

RECURSIVE DecimalValue(_)
DecimalValue(chars) ==
    IF chars = <<>> THEN 0
    ELSE 10 * DecimalValue(SubSeq(chars, 1, Len(chars) - 1))
         + DigitValue(chars[Len(chars)])

AllDigits(chars) == chars # <<>> /\ \A i \in 1..Len(chars) : chars[i] \in DigitChars

\* re.findall(r'\d+', text)[0]: the first maximal run of digits of text,
\* <<>> when text holds no digit (findall gives [] and [0] raises IndexError).
FirstDigits(chars) ==
    LET starts == {i \in 1..Len(chars) : chars[i] \in DigitChars} IN
    IF starts = {} THEN <<>>
    ELSE LET a == CHOOSE i \in starts : \A j \in starts : i <= j
             stops == {j \in a..Len(chars) :
                          j = Len(chars) \/ chars[j + 1] \notin DigitChars}
             b == CHOOSE j \in stops : \A k \in stops : j <= k
         IN SubSeq(chars, a, b)

\* text.split('lb')[0]: the part of text before the first "lb".
BeforeLb(chars) ==
    LET at == {i \in 1..(Len(chars) - 1) : chars[i] = "l" /\ chars[i + 1] = "b"} IN
    IF at = {} THEN chars
    ELSE SubSeq(chars, 1, (CHOOSE i \in at : \A j \in at : i <= j) - 1)

----------------------------------------------------------------------------
(* The profile page: the <p> blocks of div#meta, the h1 name, div#inner_nav *)

\* One <p> of the metadata block, by what scrape_profile can read from it.
\* position: contents[2].split('\n')[0].split(' ')[1]; <<>>: the read raises.
\* height, weight, affiliation, birth_date, death_date: the text (or
\*   attribute) of the span with that itemprop; <<>>: the block has no such span.
\* bp_span: the block has a span itemprop=birthPlace; bp: its .contents, the
\*   first item already split at '\xa0'.
\* label: contents[0].contents[0]; <<>>: contents[0] has no .contents (raises).
\* value: contents[2].contents[0]; info: contents[3].split(' ');
\* value2: contents[4].contents[0].
Block(kind, label) ==
    [kind |-> kind, position |-> <<>>, height |-> <<>>, weight |-> <<>>,
     affiliation |-> <<>>, birth_date |-> <<>>, bp_span |-> FALSE, bp |-> <<>>,
     death_date |-> <<>>, label |-> label, value |-> <<>>, info |-> <<>>,
     value2 |-> <<>>]

LeadBlock == Block("lead", <<>>)
PositionBlock == [Block("position", <<>>) EXCEPT !.position = <<"QB">>]
HeightWeightBlock ==
    [Block("height_weight", <<>>) EXCEPT !.height = <<"6-2">>,
                                         !.weight = <<"2", "2", "0", "l", "b">>]
HeightOnlyBlock == [Block("height_weight", <<>>) EXCEPT !.height = <<"6-2">>]
TeamBlock == [Block("team", <<>>) EXCEPT !.affiliation = <<"DEN">>]
BirthBlock ==
    [Block("birth", <<>>) EXCEPT !.birth_date = <<"1990-01-01">>, !.bp_span = TRUE,
                                 !.bp = << <<"in", "Denver,">>, <<"CO">> >>]
BirthNoPlaceBlock ==
    [Block("birth", <<>>) EXCEPT !.birth_date = <<"1990-01-01">>, !.bp_span = TRUE]
BirthEmptyBlock == [Block("birth", <<>>) EXCEPT !.bp_span = TRUE]
DeathBlock == [Block("death", <<>>) EXCEPT !.death_date = <<"2010-05-05">>]
CollegeBlock == [Block("college", <<"College">>) EXCEPT !.value = <<"X">>]
CareerAVBlock == Block("career_av", <<"Weighted Career AV (100-95-...)">>)
HighSchoolBlock ==
    [Block("high_school", <<"High School">>) EXCEPT !.value = <<"Y">>,
                                                    !.value2 = <<"CO">>]
DraftSentence ==
    << <<>>, <<"i", "n">>, <<"t", "h", "e">>, <<"3", "r", "d">>,
       <<"r", "o", "u", "n", "d">>, <<"(", "9", "0", "t", "h">>,
       <<"o", "v", "e", "r", "a", "l", "l", ")">> >>
DraftBlock ==
    [Block("draft", <<"Draft">>) EXCEPT !.value = <<"Broncos">>,
                                        !.info = DraftSentence,
                                        !.value2 = <<"2", "0", "1", "2">>]
\* Draft sentences that are not in the fixed format.
DraftShortBlock == [DraftBlock EXCEPT !.info = SubSeq(DraftSentence, 1, 3)]
DraftNoPickBlock == [DraftBlock EXCEPT !.info[6] = <<"(", "t", "h">>]
DraftNoYearBlock == [DraftBlock EXCEPT !.value2 = <<"N", "F", "L">>]
SalaryBlock == [Block("salary", <<"Current cap hit">>) EXCEPT !.value = <<"$1,000">>]
HofBlock == [Block("hof", <<"Hall of fame">>) EXCEPT !.value = <<"2020">>]

\* div#inner_nav's second <li>: the labels of its <li> entries, each with its href.
NavEntry(year) == [year |-> year, href |-> <<"gamelog", year>>]

BASE_URL(href) == <<"https://www.pro-football-reference.com">> \o href

\* A profile page.  has_name: div#meta holds the h1; has_nav: div#inner_nav
\* holds a second <li>.
Page(blocks, nav) ==
    [kind |-> "profile", has_name |-> TRUE, name |-> <<"A", " ", "B">>,
     blocks |-> blocks, has_nav |-> TRUE, nav |-> nav]

----------------------------------------------------------------------------
(* Player.__init__ and Player.scrape_profile *)

EmptyProfile(id) ==
    [player_id |-> PyInt(id), name |-> None, position |-> None, height |-> None,
     weight |-> None, current_team |-> None, birth_date |-> None,
     birth_place |-> None, death_date |-> None, college |-> None,
     high_school |-> None, draft_team |-> None, draft_round |-> None,
     draft_position |-> None, draft_year |-> None, current_salary |-> None,
     hof_induction_year |-> None]

NewPlayer(id, url) ==
    [player_id |-> id, profile_url |-> url, profile |-> EmptyProfile(id),
     seasons_with_stats |-> <<>>, game_stats |-> <<>>]

\* The scan state: the profile written so far, current_attribute, whether an
\* exception was raised (the scan stops there), and the indices at which a
\* block's label was read.
ScanStart(id) ==
    [profile |-> EmptyProfile(id), cur |-> 1, raised |-> FALSE, label_reads |-> <<>>,
     seasons |-> <<>>]

\* profile_attributes[i] (i counts from 0); InRange is what Python checks.
InRange(blocks, i) == i < Len(blocks)
Attr(blocks, i) == blocks[i + 1]
Raise(st) == [st EXCEPT !.raised = TRUE]

\* profile_section.find('span', {'itemprop': ...}): the first one in the section.
FindSpan(blocks, field) ==
    LET at == {i \in 1..Len(blocks) : blocks[i][field] # <<>>} IN
    IF at = {} THEN <<>>
    ELSE blocks[CHOOSE i \in at : \A j \in at : i <= j][field]

NameStep(page, st) ==
    IF ~page.has_name THEN Raise(st)
    ELSE [st EXCEPT !.profile.name = PyStr(page.name)]

PositionStep(blocks, st) ==
    IF ~InRange(blocks, st.cur) \/ Attr(blocks, st.cur).position = <<>> THEN Raise(st)
    ELSE [st EXCEPT !.profile.position = PyStr(Attr(blocks, st.cur).position),
                    !.cur = st.cur + 1]

HeightWeightStep(blocks, st) ==
    IF ~InRange(blocks, st.cur) THEN Raise(st)
    ELSE LET b == Attr(blocks, st.cur)
             s1 == IF b.height # <<>>
                   THEN [st EXCEPT !.profile.height = PyStr(b.height)] ELSE st
             s2 == IF b.weight # <<>>
                   THEN [s1 EXCEPT !.profile.weight = PyStr(BeforeLb(b.weight))]
                   ELSE s1
         IN IF b.height # <<>> \/ b.weight # <<>>
            THEN [s2 EXCEPT !.cur = st.cur + 1] ELSE s2

TeamStepAlwaysAdvance(blocks, st) ==
    LET affiliation_section == FindSpan(blocks, "affiliation") IN
    IF affiliation_section # <<>>
    THEN [st EXCEPT !.profile.current_team = PyStr(affiliation_section),
                    !.cur = st.cur + 1]
    ELSE [st EXCEPT !.cur = st.cur + 1]

TeamStep(blocks, st) ==
    LET affiliation_section == FindSpan(blocks, "affiliation") IN
    IF affiliation_section # <<>>
    THEN [st EXCEPT !.profile.current_team = PyStr(affiliation_section),
                    !.cur = st.cur + 1]
    ELSE st

BirthStep(blocks, st) ==
    IF ~InRange(blocks, st.cur) THEN Raise(st)
    ELSE LET b == Attr(blocks, st.cur)
             s1 == IF b.birth_date # <<>>
                   THEN [st EXCEPT !.profile.birth_date = PyStr(b.birth_date)] ELSE st
         IN IF ~b.bp_span THEN Raise(s1)
            ELSE LET s2 == IF Len(b.bp) >= 2 /\ Len(b.bp[1]) >= 2
                           THEN [s1 EXCEPT !.profile.birth_place =
                                     PyStr(<<b.bp[1][2], " ">> \o b.bp[2])]
                           ELSE s1
                 IN IF b.birth_date # <<>> \/ Len(b.bp) > 0
                    THEN [s2 EXCEPT !.cur = st.cur + 1] ELSE s2

DeathStep(blocks, st) ==
    LET death_section == FindSpan(blocks, "death_date") IN
    IF death_section # <<>>
    THEN [st EXCEPT !.profile.death_date = PyStr(death_section), !.cur = st.cur + 1]
    ELSE st

\* profile_attributes[cur].contents[0].contents[0] == label: the read is
\* recorded, raises when cur is past the end or the block carries no label.
ReadLabel(st) == [st EXCEPT !.label_reads = Append(st.label_reads, st.cur)]
LabelRaises(blocks, st) == ~InRange(blocks, st.cur) \/ Attr(blocks, st.cur).label = <<>>
LabelIs(blocks, st, label) == Attr(blocks, st.cur).label = <<label>>

\* The guard of the label-matched categories after the career-AV skip.
Guarded(blocks, st) == (st.cur + 1) <= Len(blocks)

CollegeStep(blocks, st) ==
    IF LabelRaises(blocks, st) THEN Raise(ReadLabel(st))
    ELSE IF LabelIs(blocks, st, "College")
    THEN [ReadLabel(st) EXCEPT !.profile.college = PyStr(Attr(blocks, st.cur).value),
                               !.cur = st.cur + 1]
    ELSE ReadLabel(st)

CareerAVStep(blocks, st) == [st EXCEPT !.cur = st.cur + 1]

HighSchoolStep(blocks, st) ==
    IF ~Guarded(blocks, st) THEN st
    ELSE IF LabelRaises(blocks, st) THEN Raise(ReadLabel(st))
    ELSE IF LabelIs(blocks, st, "High School")
    THEN LET b == Attr(blocks, st.cur) IN
         [ReadLabel(st) EXCEPT !.profile.high_school = PyStr(b.value \o <<", ">> \o b.value2),
                               !.cur = st.cur + 1]
    ELSE ReadLabel(st)

\* The four draft writes, in the order of the code; the first that fails
\* raises IndexError and leaves the earlier ones written.
DraftStep(blocks, st) ==
    IF ~Guarded(blocks, st) THEN st
    ELSE IF LabelRaises(blocks, st) THEN Raise(ReadLabel(st))
    ELSE IF ~LabelIs(blocks, st, "Draft") THEN ReadLabel(st)
    ELSE LET b == Attr(blocks, st.cur)
             draft_info == b.info
             s1 == [ReadLabel(st) EXCEPT !.profile.draft_team = PyStr(b.value)]
         IN IF Len(draft_info) < 4 \/ FirstDigits(draft_info[4]) = <<>> THEN Raise(s1)
            ELSE LET s2 == [s1 EXCEPT !.profile.draft_round =
                                          PyStr(FirstDigits(draft_info[4]))]
                 IN IF Len(draft_info) < 6 \/ FirstDigits(draft_info[6]) = <<>>
                    THEN Raise(s2)
                    ELSE LET s3 == [s2 EXCEPT !.profile.draft_position =
                                                  PyStr(FirstDigits(draft_info[6]))]
                         IN IF FirstDigits(b.value2) = <<>> THEN Raise(s3)
                            ELSE [s3 EXCEPT !.profile.draft_year =
                                                PyStr(FirstDigits(b.value2)),
                                            !.cur = st.cur + 1]

SalaryStep(blocks, st) ==
    IF ~Guarded(blocks, st) THEN st
    ELSE IF LabelRaises(blocks, st) THEN Raise(ReadLabel(st))
    ELSE IF LabelIs(blocks, st, "Current cap hit")
    THEN [ReadLabel(st) EXCEPT !.profile.current_salary =
                                   PyStr(Attr(blocks, st.cur).value),
                               !.cur = st.cur + 1]
    ELSE ReadLabel(st)

HofStep(blocks, st) ==
    IF ~Guarded(blocks, st) THEN st
    ELSE IF LabelRaises(blocks, st) THEN Raise(ReadLabel(st))
    ELSE IF LabelIs(blocks, st, "Hall of fame")
    THEN [ReadLabel(st) EXCEPT !.profile.hof_induction_year =
                                   PyStr(Attr(blocks, st.cur).value),
                               !.cur = st.cur + 1]
    ELSE ReadLabel(st)

\* The list filled whatever its first entry is.
get_seasons_with_stats_any_first(page) ==
    [i \in 1..Len(page.nav) |->
        [year |-> page.nav[i].year, gamelog_url |-> BASE_URL(page.nav[i].href)]]

\* Player.get_seasons_with_stats
get_seasons_with_stats(page) ==
    LET gamelog_list == page.nav IN
    IF Len(gamelog_list) > 0 /\ gamelog_list[1].year = "Career"
    THEN [i \in 1..Len(gamelog_list) |->
             [year |-> gamelog_list[i].year,
              gamelog_url |-> BASE_URL(gamelog_list[i].href)]]
    ELSE <<>>

SeasonsStep(page, st) ==
    IF ~page.has_nav THEN Raise(st)
    ELSE [st EXCEPT !.seasons = get_seasons_with_stats(page)]

\* The categories of the scan, in the order of the code.
Categories ==
    <<"name", "position", "height_weight", "team", "birth", "death", "college",
      "career_av", "high_school", "draft", "salary", "hall_of_fame", "seasons">>

ScanStep(category, page, st) ==
    CASE category = "name" -> NameStep(page, st)
      [] category = "position" -> PositionStep(page.blocks, st)
      [] category = "height_weight" -> HeightWeightStep(page.blocks, st)
      [] category = "team" -> TeamStep(page.blocks, st)
      [] category = "birth" -> BirthStep(page.blocks, st)
      [] category = "death" -> DeathStep(page.blocks, st)
      [] category = "college" -> CollegeStep(page.blocks, st)
      [] category = "career_av" -> CareerAVStep(page.blocks, st)
      [] category = "high_school" -> HighSchoolStep(page.blocks, st)
      [] category = "draft" -> DraftStep(page.blocks, st)
      [] category = "salary" -> SalaryStep(page.blocks, st)
      [] category = "hall_of_fame" -> HofStep(page.blocks, st)
      [] category = "seasons" -> SeasonsStep(page, st)

\* The categories from the k-th to the n-th, stopping at the first that raises.
RECURSIVE Scan(_, _, _, _)
Scan(page, st, k, n) ==
    IF k > n \/ st.raised THEN st
    ELSE Scan(page, ScanStep(Categories[k], page, st), k + 1, n)

\* Player.scrape_profile on a parsed page, for the player with identifier id.
scrape_profile(page, id) == Scan(page, ScanStart(id), 1, Len(Categories))

----------------------------------------------------------------------------
(* int() and float() of a cell's text *)

Unsigned(chars) ==
    IF chars # <<>> /\ chars[1] \in {"-", "+"} THEN Tail(chars) ELSE chars
Sign(chars) == IF chars # <<>> /\ chars[1] = "-" THEN -1 ELSE 1

\* int(text) raises ValueError unless text is an optional sign and digits.
IntParses(chars) == AllDigits(Unsigned(chars))
IntOf(chars) == PyInt(Sign(chars) * DecimalValue(Unsigned(chars)))

\* float(text): an optional sign, digits, and optionally a point and digits.
PointAt(chars) == {i \in 1..Len(chars) : chars[i] = "."}
FloatParses(chars) ==
    LET u == Unsigned(chars) IN
    \/ AllDigits(u)
    \/ /\ Cardinality(PointAt(u)) = 1
       /\ LET i == CHOOSE j \in PointAt(u) : TRUE IN
          /\ AllDigits(SubSeq(u, 1, i - 1) \o SubSeq(u, i + 1, Len(u)))
FloatOf(chars) ==
    LET u == Unsigned(chars) IN
    IF PointAt(u) = {} THEN PyFloat(Sign(chars) * DecimalValue(u), 0)
    ELSE LET i == CHOOSE j \in PointAt(u) : TRUE IN
         PyFloat(Sign(chars) * DecimalValue(SubSeq(u, 1, i - 1) \o SubSeq(u, i + 1, Len(u))),
                 Len(u) - i)

----------------------------------------------------------------------------
(* Player.make_player_game_stats and Player.scrape_season_gamelog *)

make_player_game_stats(id, year) ==
    [player_id |-> PyInt(id), year |-> PyStr(<<year>>),
     game_id |-> None, date |-> None, game_number |-> None, age |-> None,
     team |-> None, game_location |-> None, opponent |-> None, game_won |-> None,
     player_team_score |-> PyInt(0), opponent_score |-> PyInt(0),
     passing_attempts |-> PyInt(0), passing_completions |-> PyInt(0),
     passing_yards |-> PyInt(0), passing_rating |-> PyInt(0),
     passing_touchdowns |-> PyInt(0), passing_interceptions |-> PyInt(0),
     passing_sacks |-> PyInt(0), passing_sacks_yards_lost |-> PyInt(0),
     rushing_attempts |-> PyInt(0), rushing_yards |-> PyInt(0),
     rushing_touchdowns |-> PyInt(0),
     receiving_targets |-> PyInt(0), receiving_receptions |-> PyInt(0),
     receiving_yards |-> PyInt(0), receiving_touchdowns |-> PyInt(0),
     kick_return_attempts |-> PyInt(0), kick_return_yards |-> PyInt(0),
     kick_return_touchdowns |-> PyInt(0),
     punt_return_attempts |-> PyInt(0), punt_return_yards |-> PyInt(0),
     punt_return_touchdowns |-> PyInt(0),
     defense_sacks |-> PyInt(0), defense_tackles |-> PyInt(0),
     defense_tackle_assists |-> PyInt(0), defense_interceptions |-> PyInt(0),
     defense_interception_yards |-> PyInt(0),
     defense_interception_touchdowns |-> PyInt(0), defense_safeties |-> PyInt(0),
     point_after_attemps |-> PyInt(0), point_after_makes |-> PyInt(0),
     field_goal_attempts |-> PyInt(0), field_goal_makes |-> PyInt(0),
     punting_attempts |-> PyInt(0), punting_yards |-> PyInt(0),
     punting_blocked |-> PyInt(0)]

\* The fields of the record that are not stats of the game.
GeneralFields ==
    {"player_id", "year", "game_id", "date", "game_number", "age", "team",
     "game_location", "opponent", "game_won", "player_team_score", "opponent_score"}
StatFields == DOMAIN make_player_game_stats(1, "2016") \ GeneralFields

Read(field, column, type) == [field |-> field, column |-> column, type |-> type]

\* The stat reads of scrape_season_gamelog, in its order: the field written,
\* the data-stat of the <td> read, and the conversion applied.
StatReads ==
    << Read("passing_attempts", "pass_cmp", "int"),
       Read("passing_completions", "pass_att", "int"),
       Read("passing_yards", "pass_yds", "int"),
       Read("passing_touchdowns", "pass_td", "int"),
       Read("passing_interceptions", "pass_int", "int"),
       Read("passing_rating", "pass_rating", "float"),
       Read("passing_sacks", "pass_sacked", "int"),
       Read("passing_sacks_yards_lost", "pass_sacked_yds", "int"),
       Read("rushing_attempts", "rush_att", "int"),
       Read("rushing_yards", "rush_yds", "int"),
       Read("rushing_touchdowns", "rush_td", "int"),
       Read("receiving_targets", "targets", "int"),
       Read("receiving_receptions", "rec", "int"),
       Read("receiving_yards", "rec_yds", "int"),
       Read("receiving_touchdowns", "rec_td", "int"),
       Read("kick_return_attempts", "kick_ret", "int"),
       Read("kick_return_yards", "kick_ret_yds", "int"),
       Read("kick_return_touchdowns", "kick_ret_td", "int"),
       Read("punt_return_attempts", "punt_ret", "int"),
       Read("punt_return_yards", "punt_ret_yds", "int"),
       Read("punt_return_touchdowns", "punt_ret_td", "int"),
       Read("defense_sacks", "sacks", "float"),
       Read("defense_tackles", "tackles_solo", "int"),
       Read("defense_tackle_assists", "tackles_assists", "int"),
       Read("defense_interceptions", "def_int", "int"),
       Read("defense_interception_yards", "def_int_yds", "int"),
       Read("defense_safeties", "safety_md", "int"),
       Read("point_after_attemps", "xpm", "int"),
       Read("point_after_makes", "xpa", "int"),
       Read("field_goal_attempts", "fga", "int"),
       Read("field_goal_makes", "fgm", "int"),
       Read("punting_attempts", "punt", "int"),
       Read("punting_yards", "punt_yds", "int"),
       Read("punting_blocked", "punt_blocked", "int") >>

ColumnsRead == {StatReads[i].column : i \in 1..Len(StatReads)}

\* A <td> of a row: found or not by game.find('td', {'data-stat': ...}), and
\* its .contents (a list holding the text, or nothing).
AbsentCell == [present |-> FALSE, contents |-> <<>>]
EmptyCell == [present |-> TRUE, contents |-> <<>>]
TextCell(chars) == [present |-> TRUE, contents |-> <<chars>>]

\* One guarded read: "if cell is not None and len(cell) > 0: stats[f] = conv(...)".
\* The result is the record, or raised when the conversion raises ValueError.
ReadStat(st, row, r) ==
    LET cell == row.cells[r.column] IN
    IF cell.present /\ Len(cell.contents) > 0
    THEN LET text == cell.contents[1] IN
         IF r.type = "int"
         THEN IF IntParses(text) THEN [st EXCEPT !.stats[r.field] = IntOf(text)]
              ELSE Raise(st)
         ELSE IF FloatParses(text) THEN [st EXCEPT !.stats[r.field] = FloatOf(text)]
              ELSE Raise(st)
    ELSE st

RECURSIVE ReadStats(_, _, _)
ReadStats(st, row, k) ==
    IF k > Len(StatReads) \/ st.raised THEN st
    ELSE ReadStats(ReadStat(st, row, StatReads[k]), row, k + 1)

\* The reads of a row that every game has.  A row holds, for each of them, the
\* text found (<<>>: the element is missing and the read raises); href is
\* the boxscore link split around the game id; location is the .contents of
\* the game_location cell; result is the result text split at ' ' and '-'.
GameLocation(contents) ==
    IF contents = <<"@">> THEN "A" ELSE IF contents = <<"N">> THEN "N" ELSE "H"

\* href.replace('/boxscores/', '').replace('.htm', '')
GameId(href) == SelectSeq(href, LAMBDA part : part \notin {"/boxscores/", ".htm"})

ReadGeneral(st, row) ==
    IF \/ row.href = <<>> \/ row.date = <<>> \/ row.game_num = <<>> \/ row.age = <<>>
       \/ row.team = <<>> \/ row.opp = <<>>
       \/ Len(row.result) < 2 \/ Len(row.result[2]) < 2
    THEN Raise(st)
    ELSE [st EXCEPT !.stats.game_id = PyStr(GameId(row.href)),
                    !.stats.date = PyStr(row.date),
                    !.stats.game_number = PyStr(row.game_num),
                    !.stats.age = PyStr(row.age),
                    !.stats.team = PyStr(row.team),
                    !.stats.game_location = PyStr(<<GameLocation(row.location)>>),
                    !.stats.opponent = PyStr(row.opp),
                    !.stats.game_won = PyBool(row.result[1] = <<"W">>),
                    !.stats.player_team_score = PyStr(<<row.result[2][1]>>),
                    !.stats.opponent_score = PyStr(<<row.result[2][2]>>)]

\* The body of the "for game in games" loop up to the append: the record made
\* for one row, or raised.
ExtractRow(row, id, year) ==
    LET s0 == [stats |-> make_player_game_stats(id, year), raised |-> FALSE]
        s1 == ReadGeneral(s0, row)
    IN ReadStats(s1, row, 1)

\* A season page: the table id=stats and the table id=stats_playoffs, each
\* there or not, with the <tr> of its tbody.
Table(rows) == [present |-> TRUE, rows |-> rows]
NoTable == [present |-> FALSE, rows |-> <<>>]
GamelogPage(stats, playoffs) == [kind |-> "gamelog", stats |-> stats, playoffs |-> playoffs]

GamesOf(page) ==
    page.stats.rows \o (IF page.playoffs.present THEN page.playoffs.rows ELSE <<>>)

\* The append made twice for a row.
RECURSIVE AppendGamesTwice(_, _, _, _)
AppendGamesTwice(game_stats, games, id, year) ==
    IF games = <<>> THEN [ret |-> "None", game_stats |-> game_stats]
    ELSE LET r == ExtractRow(Head(games), id, year) IN
         IF r.raised THEN [ret |-> "raised", game_stats |-> game_stats]
         ELSE AppendGamesTwice(game_stats \o <<r.stats, r.stats>>, Tail(games), id, year)

\* The loop over games: every row's record is appended to game_stats as soon
\* as it is made; a row that raises ends the loop with the earlier rows kept.
RECURSIVE AppendGames(_, _, _, _)
AppendGames(game_stats, games, id, year) ==
    IF games = <<>> THEN [ret |-> "None", game_stats |-> game_stats]
    ELSE LET r == ExtractRow(Head(games), id, year) IN
         IF r.raised THEN [ret |-> "raised", game_stats |-> game_stats]
         ELSE AppendGames(Append(game_stats, r.stats), Tail(games), id, year)

\* "return False" only when both tables are missing.
scrape_season_gamelog_reads_playoffs(page, game_stats, id, year) ==
    IF ~page.stats.present /\ ~page.playoffs.present
    THEN [ret |-> "False", game_stats |-> game_stats]
    ELSE AppendGames(game_stats, GamesOf(page), id, year)

\* Player.scrape_season_gamelog on a parsed page: what it returns ("False",
\* "None", or "raised") and self.game_stats afterwards.
scrape_season_gamelog(page, game_stats, id, year) ==
    IF ~page.stats.present THEN [ret |-> "False", game_stats |-> game_stats]
    ELSE AppendGames(game_stats, GamesOf(page), id, year)

----------------------------------------------------------------------------
(* Bounds of the model *)

\* Player links the site's list pages hold in one run, all letters together.
MaxPlayers == 2

\* letters_to_scrape and first_player_id of the Scraper that is run.
Letters == <<"A", "B">>
FirstIds == {1, 2}

----------------------------------------------------------------------------
(* Scraper.get_page *)

\* The retry limit of get_page ("if retry_count <= 3").
MaxRetries == 3

\* Without the "except (KeyboardInterrupt, SystemExit): raise" clause.
get_page_except_retries_all(e, count, sess) ==
    IF count + 1 <= MaxRetries
    THEN [do |-> "retry", retry_count |-> count + 1, session |-> sess + 1]
    ELSE [do |-> "raise", retry_count |-> count + 1, session |-> sess]

\* With "retry_count < 3" for "retry_count <= 3".
get_page_except_one_short(e, count, sess) ==
    IF e = "interrupt" THEN [do |-> "raise", retry_count |-> count, session |-> sess]
    ELSE IF count + 1 < MaxRetries
    THEN [do |-> "retry", retry_count |-> count + 1, session |-> sess + 1]
    ELSE [do |-> "raise", retry_count |-> count + 1, session |-> sess]

\* The except clauses of get_page for error e raised by session.get, with the
\* call's retry_count and the current session: re-raise, or count the retry,
\* install a new requests.Session() (sess + 1 is an identity never used
\* before) and call get_page again.
get_page_except(e, count, sess) ==
    IF e = "interrupt" THEN [do |-> "raise", retry_count |-> count, session |-> sess]
    ELSE IF count + 1 <= MaxRetries
    THEN [do |-> "retry", retry_count |-> count + 1, session |-> sess + 1]
    ELSE [do |-> "raise", retry_count |-> count + 1, session |-> sess]

----------------------------------------------------------------------------
(* Scraper.scrape_site *)

\* The positions of scrape_site inside its try block.
TryBlock == {"get_profile", "parse_profile", "next_season", "get_gamelog", "parse_gamelog"}
\* The positions at which a get_page call is making its GET attempts.
GetPositions == {"get_list", "get_profile", "get_gamelog"}
Terminal == {"done", "raised"}

\* "except: ... continue" replaced by "except: raise".
scrape_site_except_reraises(e) == "raise"
\* Without the "except (KeyboardInterrupt, SystemExit): raise" clause.
scrape_site_except_swallows(e) == "continue"
\* "continue" replaced by "pass": the failed player is saved.
scrape_site_except_saves(e) == IF e = "interrupt" THEN "raise" ELSE "save"

\* The except clauses of scrape_site's try block.
scrape_site_except(e) == IF e = "interrupt" THEN "raise" ELSE "continue"

\* "player_id += 1" left out.
next_player_id_stuck(id) == id
\* "player_id += 1"
next_player_id(id) == id + 1

\* An exception raised at position `at`: caught by the try block when `at` is
\* inside it, else it leaves scrape_site.
Propagates(e, at) ==
    /\ exc' = e
    /\ raised_at' = at
    /\ pc' = IF at \in TryBlock THEN "except" ELSE "raised"

\* get_page(url) has returned and its frames are gone.  Session identities
\* matter only by equality, and only the current one is left: it is named 0.
LeaveGetPage ==
    /\ retry_count' = 0
    /\ gp_attempts' = <<>>
    /\ gp_result' = "none"
    /\ session' = 0

\* get_page(url) is entered: retry_count = 0.
EnterGetPage(url) ==
    /\ retry_count' = 0
    /\ gp_attempts' = <<>>
    /\ gp_result' = "running"
    /\ fetched' = Append(fetched, url)

UnchangedGetPage == UNCHANGED <<retry_count, gp_attempts, gp_result, session>>
UnchangedStore == UNCHANGED <<profile_dir, stats_dir, profiles_out, games_out>>
UnchangedConfig == UNCHANGED <<first_player_id, clear_old_data>>
UnchangedLoop == UNCHANGED <<letter_idx, urls_left, player_id, visited>>

PROFILE_DIR == "profile_data"
STATS_DIR == "stats_data"
PLAYER_LIST_URL(letter) == <<"https://www.pro-football-reference.com/players", letter>>

NoFiles == [f \in {} |-> None]
NotWritten == <<"not written">>

\* Scraper.clear_data and "player_id = self.first_player_id"
Start ==
    /\ pc = "start"
    /\ profile_dir' = IF clear_old_data THEN NoFiles ELSE profile_dir
    /\ stats_dir' = IF clear_old_data THEN NoFiles ELSE stats_dir
    /\ player_id' = first_player_id
    /\ pc' = "next_letter"
    /\ UNCHANGED <<exc, raised_at, letter_idx, urls_left, player, seasons_left,
                   response, profiles_out, games_out, visited, persisted, fetched>>
    /\ UnchangedGetPage /\ UnchangedConfig

\* "for letter in self.letters_to_scrape": the next letter's get_page call, or
\* the end of the loop.
NextLetter ==
    /\ pc = "next_letter"
    /\ IF letter_idx < Len(Letters)
       THEN /\ letter_idx' = letter_idx + 1
            /\ pc' = "get_list"
            /\ EnterGetPage(PLAYER_LIST_URL(Letters[letter_idx + 1]))
       ELSE /\ pc' = "condense"
            /\ UNCHANGED <<letter_idx, retry_count, gp_attempts, gp_result, fetched>>
    /\ UNCHANGED <<exc, raised_at, urls_left, player_id, player, seasons_left,
                   session, response, visited, persisted>>
    /\ UnchangedStore /\ UnchangedConfig

----------------------------------------------------------------------------
(* What the site serves *)

\* The data-stat of the interception-touchdown column, the one column of a
\* stat field that scrape_season_gamelog has no read for.
Columns == ColumnsRead \cup {"def_int_td"}

NoCells == [c \in Columns |-> AbsentCell]

Row(game, location, cells) ==
    [href |-> <<"/boxscores/", game, ".htm">>, date |-> <<"2016-09-08">>,
     game_num |-> <<"1">>, age |-> <<"26.123">>, team |-> <<"DEN">>,
     location |-> location, opp |-> <<"CAR">>,
     result |-> << <<"W">>, <<"24", "17">> >>,
     cells |-> cells]

\* A row with one cell set.
OneCell(column, cell) == [NoCells EXCEPT ![column] = cell]

ListPage(has_div, n) == [kind |-> "list", has_div |-> has_div, players |-> n]

\* The list pages a letter's URL may serve when `seen` players were listed
\* under the letters before it.
SiteLists(seen) ==
    {ListPage(TRUE, n) : n \in 0..(MaxPlayers - seen)} \cup {ListPage(FALSE, 0)}

CanonicalBlocks ==
    <<LeadBlock, PositionBlock, HeightWeightBlock, TeamBlock, BirthBlock,
      CollegeBlock, CareerAVBlock, HighSchoolBlock, DraftBlock>>
SeasonIndex == <<NavEntry("Career"), NavEntry("2016"), NavEntry("Postseason")>>

\* The profile pages a player's URL may serve in a run of scrape_site: a
\* complete page, a page of a player with no team and no game history, a page
\* whose draft sentence lacks the pick, and a page that ends after the birth
\* block.
SiteProfiles ==
    { Page(CanonicalBlocks, SeasonIndex),
      Page(<<LeadBlock, PositionBlock, HeightWeightBlock, BirthBlock, CareerAVBlock>>,
           <<NavEntry("2016")>>),
      Page(<<LeadBlock, PositionBlock, HeightWeightBlock, BirthBlock, CareerAVBlock,
             DraftNoPickBlock>>, <<>>),
      Page(<<LeadBlock, PositionBlock, HeightWeightBlock, BirthBlock>>, <<>>) }

\* The season pages a gamelog URL may serve in a run of scrape_site.
SiteGamelogs ==
    { GamelogPage(NoTable, NoTable),
      GamelogPage(Table(<<Row("g1", <<"@">>, OneCell("pass_yds", TextCell(<<"7">>)))>>),
                  NoTable),
      GamelogPage(Table(<<Row("g2", <<>>, NoCells)>>),
                  Table(<<Row("g3", <<"N">>, OneCell("sacks", TextCell(<<"1", ".", "5">>)))>>)),
      GamelogPage(Table(<<Row("g1", <<>>, OneCell("rush_att", TextCell(<<"x">>)))>>),
                  NoTable),
      GamelogPage(NoTable,
                  Table(<<Row("g3", <<>>, OneCell("rec", TextCell(<<"4">>)))>>)) }

----------------------------------------------------------------------------
(* get_page's GET attempts *)

\* Where scrape_site goes on when the get_page call made at position `at` returns.
AfterGet(at) ==
    CASE at = "get_list" -> "parse_list"
      [] at = "get_profile" -> "parse_profile"
      [] at = "get_gamelog" -> "parse_gamelog"

Serves(at) ==
    CASE at = "get_list" -> SiteLists(Len(visited))
      [] at = "get_profile" -> SiteProfiles
      [] at = "get_gamelog" -> SiteGamelogs

Attempt(outcome) == [session |-> session, outcome |-> outcome]

\* self.session.get(url, headers=HEADERS) returns a response.
GetReturns ==
    /\ pc \in GetPositions
    /\ \E page \in Serves(pc) : response' = page
    /\ gp_attempts' = Append(gp_attempts, Attempt("ok"))
    /\ gp_result' = "returned"
    /\ pc' = AfterGet(pc)
    /\ UNCHANGED <<exc, raised_at, player, seasons_left, session, retry_count,
                   persisted, fetched>>
    /\ UnchangedLoop /\ UnchangedStore /\ UnchangedConfig

\* session.get raises error e; get_page's except clauses decide.
GetRaises(e) ==
    /\ pc \in GetPositions
    /\ gp_attempts' = Append(gp_attempts, Attempt(e))
    /\ LET h == get_page_except(e, retry_count, session) IN
       /\ retry_count' = h.retry_count
       /\ session' = h.session
       /\ IF h.do = "retry"
          THEN UNCHANGED <<pc, exc, raised_at, gp_result>>
          ELSE /\ gp_result' = IF e = "interrupt" THEN "raised_interrupt"
                               ELSE "raised_transient"
               /\ Propagates(e, pc)
    /\ UNCHANGED <<player, seasons_left, response, persisted, fetched>>
    /\ UnchangedLoop /\ UnchangedStore /\ UnchangedConfig

\* A connection error or timeout.
GetFailsTransient == GetRaises("transient")

\* KeyboardInterrupt or SystemExit during the GET.
GetInterrupted == GetRaises("interrupt")

----------------------------------------------------------------------------
(* scrape_site's loops *)

\* Scraper.get_players_for_letter after its get_page call: the links of
\* div#div_players; without the div, find() gives None and .find_all raises.
ParseList ==
    /\ pc = "parse_list"
    /\ IF response.has_div
       THEN /\ urls_left' = [k \in 1..response.players |->
                                <<"players", Letters[letter_idx], k>>]
            /\ pc' = "next_player"
            /\ UNCHANGED <<exc, raised_at>>
       ELSE /\ Propagates("extract", pc)
            /\ UNCHANGED urls_left
    /\ UNCHANGED <<letter_idx, player_id, visited, player, seasons_left, response,
                   persisted, fetched>>
    /\ LeaveGetPage /\ UnchangedStore /\ UnchangedConfig

\* "for player_profile_url in player_profile_urls": Player(player_id, url, self)
\* and scrape_profile's get_page call, or the end of the letter.
NextPlayer ==
    /\ pc = "next_player"
    /\ IF urls_left = <<>>
       THEN /\ pc' = "next_letter"
            /\ UNCHANGED <<urls_left, player, visited, retry_count, gp_attempts,
                           gp_result, fetched>>
       ELSE /\ player' = NewPlayer(player_id, Head(urls_left))
            /\ urls_left' = Tail(urls_left)
            /\ visited' = Append(visited, player_id)
            /\ pc' = "get_profile"
            /\ retry_count' = 0
            /\ gp_attempts' = <<>>
            /\ gp_result' = "running"
            /\ fetched' = <<Head(urls_left)>>
    /\ UNCHANGED <<exc, raised_at, letter_idx, player_id, seasons_left, session,
                   response, persisted>>
    /\ UnchangedStore /\ UnchangedConfig

\* Player.scrape_profile after its get_page call.
ParseProfile ==
    /\ pc = "parse_profile"
    /\ LET r == scrape_profile(response, player.player_id) IN
       IF r.raised
       THEN /\ player' = [player EXCEPT !.profile = r.profile]
            /\ Propagates("extract", pc)
            /\ UNCHANGED seasons_left
       ELSE /\ player' = [player EXCEPT !.profile = r.profile,
                                        !.seasons_with_stats = r.seasons]
            /\ seasons_left' = r.seasons
            /\ pc' = "next_season"
            /\ UNCHANGED <<exc, raised_at>>
    /\ UNCHANGED <<response, persisted, fetched>>
    /\ UnchangedLoop /\ LeaveGetPage /\ UnchangedStore /\ UnchangedConfig

\* Player.scrape_player_stats: "for season in self.seasons_with_stats", the
\* markers skipped, a season's get_page call entered.
NextSeason ==
    /\ pc = "next_season"
    /\ IF seasons_left = <<>>
       THEN /\ pc' = "save_profile"
            /\ UNCHANGED <<seasons_left, retry_count, gp_attempts, gp_result, fetched>>
       ELSE IF Head(seasons_left).year \in {"Career", "Postseason"}
       THEN /\ seasons_left' = Tail(seasons_left)
            /\ UNCHANGED <<pc, retry_count, gp_attempts, gp_result, fetched>>
       ELSE /\ pc' = "get_gamelog"
            /\ EnterGetPage(Head(seasons_left).gamelog_url)
            /\ UNCHANGED seasons_left
    /\ UNCHANGED <<exc, raised_at, player, session, response, persisted>>
    /\ UnchangedLoop /\ UnchangedStore /\ UnchangedConfig

\* Player.scrape_season_gamelog after its get_page call.
ParseGamelog ==
    /\ pc = "parse_gamelog"
    /\ LET r == scrape_season_gamelog(response, player.game_stats, player.player_id,
                                      Head(seasons_left).year) IN
       /\ player' = [player EXCEPT !.game_stats = r.game_stats]
       /\ IF r.ret = "raised"
          THEN /\ Propagates("extract", pc)
               /\ UNCHANGED seasons_left
          ELSE /\ seasons_left' = Tail(seasons_left)
               /\ pc' = "next_season"
               /\ UNCHANGED <<exc, raised_at>>
    /\ UNCHANGED <<response, persisted, fetched>>
    /\ UnchangedLoop /\ LeaveGetPage /\ UnchangedStore /\ UnchangedConfig

\* "player_id += 1" made in the except clause as well.
ExceptConsumesId ==
    /\ pc = "except"
    /\ LET do == scrape_site_except(exc) IN
       /\ pc' = CASE do = "raise" -> "raised"
                  [] do = "continue" -> "next_player"
                  [] do = "save" -> "save_profile"
       /\ exc' = IF do = "raise" THEN exc ELSE "none"
       /\ player_id' = IF do = "continue" THEN player_id + 1 ELSE player_id
    /\ UNCHANGED <<raised_at, player, seasons_left, response, persisted, fetched,
                   letter_idx, urls_left, visited>>
    /\ UnchangedGetPage /\ UnchangedStore /\ UnchangedConfig

\* The except clauses of scrape_site: re-raise, or print and continue with the
\* next player.
Except ==
    /\ pc = "except"
    /\ LET do == scrape_site_except(exc) IN
       /\ pc' = CASE do = "raise" -> "raised"
                  [] do = "continue" -> "next_player"
                  [] do = "save" -> "save_profile"
       /\ exc' = IF do = "raise" THEN exc ELSE "none"
    /\ UNCHANGED <<raised_at, player, seasons_left, response, persisted, fetched>>
    /\ UnchangedLoop /\ UnchangedGetPage /\ UnchangedStore /\ UnchangedConfig

----------------------------------------------------------------------------
(* Scraper.save_player_profile, save_player_game_stats *)

\* name.replace(' ', '-')
Dashed(chars) == [i \in 1..Len(chars) |-> IF chars[i] = " " THEN "-" ELSE chars[i]]

\* '{}/{}_{}.json'.format(dir, player_id, name.replace(' ', '-'))
FileName(dir, id, name) == [dir |-> dir, id |-> id, name |-> Dashed(name)]

\* open(filename, 'w') and json.dump: the file holds the content, whatever it
\* held before.
WriteFile(dir, filename, content) == (filename :> content) @@ dir

\* save_player_profile(player.profile).  os.makedirs' OSError is passed over;
\* an OSError of open() or json.dump() is not caught here nor in scrape_site.
SaveProfile ==
    /\ pc = "save_profile"
    /\ \/ /\ profile_dir' = WriteFile(profile_dir,
                                FileName(PROFILE_DIR, player.profile.player_id.n,
                                         player.profile.name.s),
                                player.profile)
          /\ persisted' = Append(persisted, [visit |-> Len(visited),
                                             id |-> player.profile.player_id.n,
                                             dir |-> PROFILE_DIR])
          /\ pc' = "save_stats"
          /\ UNCHANGED <<exc, raised_at>>
       \/ /\ Propagates("persist", pc)
          /\ UNCHANGED <<profile_dir, persisted>>
    /\ UNCHANGED <<player, seasons_left, response, stats_dir, profiles_out, games_out,
                   fetched>>
    /\ UnchangedLoop /\ UnchangedGetPage /\ UnchangedConfig

\* save_player_game_stats(player.game_stats, player.player_id,
\* player.profile['name']) and "player_id += 1".
SaveStats ==
    /\ pc = "save_stats"
    /\ \/ /\ stats_dir' = WriteFile(stats_dir,
                              FileName(STATS_DIR, player.player_id, player.profile.name.s),
                              player.game_stats)
          /\ persisted' = Append(persisted, [visit |-> Len(visited),
                                             id |-> player.player_id,
                                             dir |-> STATS_DIR])
          /\ player_id' = next_player_id(player_id)
          /\ pc' = "next_player"
          /\ UNCHANGED <<exc, raised_at>>
       \/ /\ Propagates("persist", pc)
          /\ UNCHANGED <<stats_dir, persisted, player_id>>
    /\ UNCHANGED <<letter_idx, urls_left, visited, player, seasons_left, response,
                   profile_dir, profiles_out, games_out, fetched>>
    /\ UnchangedGetPage /\ UnchangedConfig

----------------------------------------------------------------------------
(* Scraper.condense_data *)

\* glob.glob('<dir>/*.json'): the files of the directory, in any order.
Listings(dir) ==
    LET n == Cardinality(DOMAIN dir) IN
    {l \in [1..n -> DOMAIN dir] : \A i, j \in 1..n : l[i] = l[j] => i = j}

\* "condensed_profile_data.append(json.load(fin))" over the listing.
CondenseProfiles(dir, listing) == [i \in 1..Len(listing) |-> dir[listing[i]]]

\* "condensed_game_data = json.load(fin)" for "+=".
CondenseGamesKeepsLast(dir, listing) ==
    IF listing = <<>> THEN <<>> ELSE dir[listing[Len(listing)]]

\* "condensed_game_data += json.load(fin)" over the listing.
RECURSIVE CondenseGames(_, _)
CondenseGames(dir, listing) ==
    IF listing = <<>> THEN <<>>
    ELSE dir[Head(listing)] \o CondenseGames(dir, Tail(listing))

Condense ==
    /\ pc = "condense"
    /\ \E lp \in Listings(profile_dir), lg \in Listings(stats_dir) :
          /\ profiles_out' = CondenseProfiles(profile_dir, lp)
          /\ games_out' = CondenseGames(stats_dir, lg)
    /\ pc' = "done"
    /\ UNCHANGED <<exc, raised_at, player, seasons_left, response, profile_dir,
                   stats_dir, persisted, fetched>>
    /\ UnchangedLoop /\ UnchangedGetPage /\ UnchangedConfig

----------------------------------------------------------------------------
(* Cancellation *)

\* KeyboardInterrupt or SystemExit raised anywhere in scrape_site but in a
\* GET (that is GetInterrupted).  Raised in the except clause (its print), it
\* leaves scrape_site as it does from outside the try block.
Interrupt ==
    /\ pc \notin Terminal \cup GetPositions
    /\ Propagates("interrupt", pc)
    /\ UNCHANGED <<player, seasons_left, response, persisted, fetched>>
    /\ UnchangedLoop /\ UnchangedGetPage /\ UnchangedStore /\ UnchangedConfig

----------------------------------------------------------------------------
(* A run of scrape_site *)

\* Files a run without clear_old_data may find: those of an earlier run that
\* saved one player under identifier 1.
OldProfile == [EmptyProfile(1) EXCEPT !.name = PyStr(<<"O", " ", "P">>)]
OldProfiles == WriteFile(NoFiles, FileName(PROFILE_DIR, 1, <<"O", " ", "P">>), OldProfile)
OldStats == WriteFile(NoFiles, FileName(STATS_DIR, 1, <<"O", " ", "P">>), <<>>)

\* The state of a Scraper after __init__, scrape_site not yet entered.
Constructed ==
    /\ first_player_id \in FirstIds
    /\ clear_old_data \in BOOLEAN
    /\ exc = "none"
    /\ raised_at = "none"
    /\ letter_idx = 0
    /\ urls_left = <<>>
    /\ player_id = 0
    /\ player = NewPlayer(0, <<"players", "A", 0>>)
    /\ seasons_left = <<>>
    /\ session = 0
    /\ retry_count = 0
    /\ gp_attempts = <<>>
    /\ gp_result = "none"
    /\ response = ListPage(TRUE, 0)
    /\ profiles_out = NotWritten
    /\ games_out = NotWritten
    /\ visited = <<>>
    /\ persisted = <<>>
    /\ fetched = <<>>

Init ==
    /\ Constructed
    /\ pc = "start"
    /\ profile_dir = OldProfiles
    /\ stats_dir = OldStats

Next ==
    \/ Start
    \/ NextLetter
    \/ GetReturns
    \/ GetFailsTransient
    \/ GetInterrupted
    \/ ParseList
    \/ NextPlayer
    \/ ParseProfile
    \/ NextSeason
    \/ ParseGamelog
    \/ Except
    \/ SaveProfile
    \/ SaveStats
    \/ Condense
    \/ Interrupt

Spec == Init /\ [][Next]_vars

----------------------------------------------------------------------------
(* scrape_profile alone: a run that has fetched a player's profile page, for
   every page made of the blocks above *)

\* The alternatives of each position of the block sequence, in page order;
\* <<>> leaves the block out.
BlockChoices ==
    << {<<LeadBlock>>},
       {<<PositionBlock>>},
       {<<HeightWeightBlock>>, <<HeightOnlyBlock>>, <<>>},
       {<<TeamBlock>>, <<>>},
       {<<BirthBlock>>, <<BirthNoPlaceBlock>>, <<BirthEmptyBlock>>},
       {<<DeathBlock>>, <<>>},
       {<<CollegeBlock>>, <<>>},
       {<<CareerAVBlock>>, <<>>},
       {<<HighSchoolBlock>>, <<>>},
       {<<DraftBlock>>, <<DraftShortBlock>>, <<DraftNoPickBlock>>, <<DraftNoYearBlock>>,
        <<>>},
       {<<SalaryBlock>>, <<>>},
       {<<HofBlock>>, <<>>} >>

RECURSIVE BlockSequences(_)
BlockSequences(k) ==
    IF k > Len(BlockChoices) THEN {<<>>}
    ELSE {head \o rest : head \in BlockChoices[k], rest \in BlockSequences(k + 1)}

ProfilePages ==
    {Page(blocks, nav) : blocks \in BlockSequences(1),
                         nav \in {SeasonIndex, <<NavEntry("2016")>>}}

\* scrape_site at a position inside the first player's try block, one
\* successful GET behind it.
InsidePlayer ==
    /\ first_player_id = 1
    /\ clear_old_data = TRUE
    /\ exc = "none"
    /\ raised_at = "none"
    /\ letter_idx = 1
    /\ urls_left = <<>>
    /\ player_id = 1
    /\ session = 0
    /\ retry_count = 0
    /\ gp_attempts = <<[session |-> 0, outcome |-> "ok"]>>
    /\ gp_result = "returned"
    /\ profile_dir = NoFiles
    /\ stats_dir = NoFiles
    /\ profiles_out = NotWritten
    /\ games_out = NotWritten
    /\ visited = <<1>>
    /\ persisted = <<>>

InitProfile ==
    /\ InsidePlayer
    /\ pc = "parse_profile"
    /\ response \in ProfilePages
    /\ player = NewPlayer(1, <<"players", "A", 1>>)
    /\ seasons_left = <<>>
    /\ fetched = <<player.profile_url>>

SpecProfile == InitProfile /\ [][ParseProfile]_vars

----------------------------------------------------------------------------
(* scrape_season_gamelog alone: a run that has fetched a season page of one
   row, for every row with up to two stat cells *)

CellChoices ==
    {EmptyCell, TextCell(<<"7">>), TextCell(<<"-", "3">>), TextCell(<<"1", ".", "5">>),
     TextCell(<<"1", "2">>)}

RowPages ==
    {GamelogPage(Table(<<Row("g1", <<"@">>,
                             [NoCells EXCEPT ![c1] = x1, ![c2] = x2])>>), NoTable) :
        c1 \in Columns, c2 \in Columns, x1 \in CellChoices, x2 \in CellChoices}

Season2016 == [year |-> "2016", gamelog_url |-> BASE_URL(NavEntry("2016").href)]

InitRow ==
    /\ InsidePlayer
    /\ pc = "parse_gamelog"
    /\ response \in RowPages
    /\ player = [NewPlayer(1, <<"players", "A", 1>>) EXCEPT
                    !.profile = scrape_profile(Page(CanonicalBlocks, SeasonIndex), 1).profile,
                    !.seasons_with_stats = <<Season2016>>]
    /\ seasons_left = <<Season2016>>
    /\ fetched = <<player.profile_url, Season2016.gamelog_url>>

SpecRow == InitRow /\ [][ParseGamelog]_vars

----------------------------------------------------------------------------
(* scrape_profile's season index and scrape_player_stats alone: a run that
   has fetched a player's profile page, for every season index of up to
   MaxSeasons entries *)

\* Entries of the game-log list of a profile page.
MaxSeasons == 3

IndexYears == {"Career", "2015", "2016", "Postseason"}

SeasonIndexes ==
    UNION {{[i \in 1..n |-> NavEntry(years[i])] : years \in [1..n -> IndexYears]} :
              n \in 0..MaxSeasons}

StatsProfiles == {Page(CanonicalBlocks, nav) : nav \in SeasonIndexes}

InitStats ==
    /\ InsidePlayer
    /\ pc = "parse_profile"
    /\ response \in StatsProfiles
    /\ player = NewPlayer(1, <<"players", "A", 1>>)
    /\ seasons_left = <<>>
    /\ fetched = <<player.profile_url>>

NextStats ==
    \/ ParseProfile
    \/ NextSeason
    \/ GetReturns
    \/ GetFailsTransient
    \/ ParseGamelog
    \/ Except

SpecStats == InitStats /\ [][NextStats]_vars

----------------------------------------------------------------------------
(* condense_data alone: a run that has reached condense_data, for every
   content of the two directories *)

\* Files in one directory.
MaxFiles == 2
\* Games in one player's stats file.
MaxGames == 2

StoredProfile(id) == [EmptyProfile(id) EXCEPT !.name = PyStr(<<"A", " ", "B">>)]
StoredGame(id, g) ==
    [make_player_game_stats(id, "2016") EXCEPT !.game_id = PyStr(<<"g", ToString(g)>>)]
StoredGames(id, n) == [g \in 1..n |-> StoredGame(id, g)]

\* The directories: a profile file for each identifier of `ids`; a stats file
\* with games[id] games for each identifier that games maps.
ProfileDirOf(ids) ==
    [f \in {FileName(PROFILE_DIR, id, <<"A", " ", "B">>) : id \in ids} |->
        StoredProfile(f.id)]
StatsDirOf(games) ==
    [f \in {FileName(STATS_DIR, id, <<"A", " ", "B">>) : id \in DOMAIN games} |->
        StoredGames(f.id, games[f.id])]

InitCondense ==
    /\ first_player_id = 1
    /\ clear_old_data = FALSE
    /\ exc = "none"
    /\ raised_at = "none"
    /\ letter_idx = Len(Letters)
    /\ urls_left = <<>>
    /\ player_id = 1
    /\ player = NewPlayer(0, <<"players", "A", 0>>)
    /\ seasons_left = <<>>
    /\ session = 0
    /\ retry_count = 0
    /\ gp_attempts = <<>>
    /\ gp_result = "none"
    /\ response = ListPage(TRUE, 0)
    /\ profiles_out = NotWritten
    /\ games_out = NotWritten
    /\ visited = <<>>
    /\ persisted = <<>>
    /\ fetched = <<>>
    /\ pc = "condense"
    /\ \E ids \in SUBSET (1..MaxFiles) : profile_dir = ProfileDirOf(ids)
    /\ \E ids \in SUBSET (1..MaxFiles) :
          \E games \in [ids -> 0..MaxGames] : stats_dir = StatsDirOf(games)

SpecCondense == InitCondense /\ [][Condense]_vars

----------------------------------------------------------------------------
(* Properties *)

AllTransient == \A i \in 1..Len(gp_attempts) : gp_attempts[i].outcome = "transient"
SessionsUsed == {gp_attempts[i].session : i \in 1..Len(gp_attempts)}
SessionsDistinct ==
    \A i, j \in 1..Len(gp_attempts) :
        gp_attempts[i].session = gp_attempts[j].session => i = j

\* C1: a get_page call all of whose GET attempts fail with a transient error
\* makes 4 attempts, each retry on a session not used before in the call,
\* then raises; it makes no 5th attempt and does not return normally.
C1_RetriesThreeTimesThenRaises ==
    /\ Len(gp_attempts) <= 4
    /\ (AllTransient /\ gp_attempts # <<>>) =>
          /\ SessionsDistinct
          /\ gp_result \in {"running", "raised_transient"}
          /\ gp_result = "running" =>
                /\ Len(gp_attempts) <= 3
                /\ retry_count = Len(gp_attempts)
                /\ session \notin SessionsUsed
          /\ gp_result = "raised_transient" =>
                /\ Len(gp_attempts) = 4
                /\ Cardinality(SessionsUsed) = 4
                /\ pc \notin {"parse_list", "parse_profile", "parse_gamelog"}

C1_Witness ==
    /\ gp_result = "raised_transient"
    /\ AllTransient
    /\ Len(gp_attempts) = 4
    /\ pc = "except"

\* C2: an exception other than a cancellation raised inside the try block
\* (scrape_profile, scrape_player_stats, a fetch that exhausted its retries
\* included) never leaves scrape_site, and its handler goes on to the next
\* player with the rest of the letter's links and the store untouched.
C2_PlayerFailureSkipsThePlayer ==
    /\ []((pc = "raised" /\ raised_at \in TryBlock) => exc = "interrupt")
    /\ [][(pc = "except" /\ exc # "interrupt") =>
             \/ /\ pc' = "next_player"
                /\ exc' = "none"
                /\ UNCHANGED <<urls_left, letter_idx, profile_dir, stats_dir>>
             \/ exc' = "interrupt"]_vars

C2_Witness ==
    /\ pc = "get_profile"
    /\ Len(visited) = 2
    /\ raised_at = "get_profile"
    /\ exc = "none"
    /\ persisted = <<>>

\* C3: once a cancellation is propagating, scrape_site ends with it: no
\* further player is constructed, nothing is saved, condense_data is not run.
C3_InterruptEndsTheRun ==
    /\ [](exc = "interrupt" =>
             /\ pc \in {"except", "raised"}
             /\ profiles_out = NotWritten
             /\ games_out = NotWritten)
    /\ [][exc = "interrupt" =>
             /\ pc' = "raised"
             /\ exc' = "interrupt"
             /\ UNCHANGED <<visited, persisted, profile_dir, stats_dir, profiles_out,
                            games_out, gp_attempts>>]_vars

C3_Witness ==
    /\ pc = "raised"
    /\ exc = "interrupt"
    /\ raised_at = "parse_gamelog"
    /\ urls_left # <<>>
    /\ profiles_out = NotWritten

\* C4: a GET attempt that ends in a cancellation is the last attempt of its
\* get_page call: the call raises it, with the session and the retry count
\* left as they were at that attempt.
C4_InterruptIsNeverRetried ==
    \A i \in 1..Len(gp_attempts) :
        gp_attempts[i].outcome = "interrupt" =>
            /\ i = Len(gp_attempts)
            /\ gp_result = "raised_interrupt"
            /\ session = gp_attempts[i].session
            /\ retry_count = i - 1
            /\ exc = "interrupt"

C4_Witness ==
    /\ gp_result = "raised_interrupt"
    /\ Len(gp_attempts) = 4
    /\ retry_count = 3
    /\ gp_attempts[4].outcome = "interrupt"

\* C5: a persistence failure in save_player_profile or save_player_game_stats
\* does not end scrape_site.
C5_PersistenceFailureIsLocal == ~(pc = "raised" /\ exc = "persist")

\* C6: identifiers follow the enumeration order: of two artifacts persisted
\* for different players the later player's identifier is the larger one,
\* and no player constructed after a persisted one has a smaller identifier.
C6_IdentifiersOrderedAndUnique ==
    /\ \A i, j \in 1..Len(persisted) :
          /\ persisted[i].visit < persisted[j].visit => persisted[i].id < persisted[j].id
          /\ persisted[i].visit = persisted[j].visit => persisted[i].id = persisted[j].id
    /\ \A i \in 1..Len(persisted) : \A k \in 1..Len(visited) :
          /\ k = persisted[i].visit => visited[k] = persisted[i].id
          /\ k > persisted[i].visit => visited[k] >= persisted[i].id

C6_Witness ==
    /\ Len(persisted) = 4
    /\ persisted[1].visit # persisted[4].visit
    /\ pc = "next_player"

RECURSIVE SumOver(_, _)
SumOver(dir, files) ==
    IF files = {} THEN 0
    ELSE LET f == CHOOSE x \in files : TRUE IN
         Len(dir[f]) + SumOver(dir, files \ {f})

Occurrences(seq, x) == Cardinality({i \in 1..Len(seq) : seq[i] = x})
FilesHolding(dir, x) == Cardinality({f \in DOMAIN dir : dir[f] = x})
RECURSIVE GamesHolding(_, _, _)
GamesHolding(dir, files, x) ==
    IF files = {} THEN 0
    ELSE LET f == CHOOSE y \in files : TRUE IN
         Occurrences(dir[f], x) + GamesHolding(dir, files \ {f}, x)
GamesStored(dir) == UNION {{dir[f][i] : i \in 1..Len(dir[f])} : f \in DOMAIN dir}

\* C7: condense_data writes one profile entry per profile file and one game
\* entry per stored game, and each collection holds exactly the stored
\* entries, as often as they are stored, whatever the listing order.
C7_CondensedCollectionsHoldEveryEntry ==
    pc = "done" =>
        /\ Len(profiles_out) = Cardinality(DOMAIN profile_dir)
        /\ Len(games_out) = SumOver(stats_dir, DOMAIN stats_dir)
        /\ \A f \in DOMAIN profile_dir :
              Occurrences(profiles_out, profile_dir[f]) = FilesHolding(profile_dir, profile_dir[f])
        /\ \A x \in GamesStored(stats_dir) :
              Occurrences(games_out, x) = GamesHolding(stats_dir, DOMAIN stats_dir, x)

C7_Witness ==
    /\ pc = "done"
    /\ Len(profiles_out) = 2
    /\ profiles_out[1].player_id.n > profiles_out[2].player_id.n
    /\ Cardinality(DOMAIN stats_dir) = 1
    /\ Len(games_out) = 2

\* The page with a team-affiliation block put at index i of the sequence.
WithTeamAt(page, i) ==
    [page EXCEPT !.blocks = SubSeq(page.blocks, 1, i) \o <<TeamBlock>>
                            \o SubSeq(page.blocks, i + 1, Len(page.blocks))]

FieldsAfterTeam ==
    {"birth_date", "birth_place", "death_date", "college", "high_school", "draft_team",
     "draft_round", "draft_position", "draft_year", "current_salary",
     "hof_induction_year"}

\* C8: on a page with no team-affiliation block the team category leaves the
\* cursor where it is and current_team null, and the scan ends as it does on
\* the page with the block at the cursor's place: the same fields after the
\* team, the same seasons, an exception on the one exactly when on the other.
C8_MissingTeamShiftsNothing ==
    LET before == Scan(response, ScanStart(player.player_id), 1, 3)
        after == Scan(response, ScanStart(player.player_id), 1, 4)
    IN (/\ pc \in {"next_season", "except"}
        /\ response.kind = "profile"
        /\ FindSpan(response.blocks, "affiliation") = <<>>
        /\ ~before.raised) =>
           LET other == scrape_profile(WithTeamAt(response, before.cur), player.player_id) IN
           /\ after.cur = before.cur
           /\ player.profile.current_team = None
           /\ other.profile.current_team = PyStr(TeamBlock.affiliation)
           /\ \A f \in FieldsAfterTeam : player.profile[f] = other.profile[f]
           /\ (pc = "except") = other.raised
           /\ pc = "next_season" => player.seasons_with_stats = other.seasons

C8_Witness ==
    /\ pc = "next_season"
    /\ response.kind = "profile"
    /\ FindSpan(response.blocks, "affiliation") = <<>>
    /\ player.profile.current_team = None
    /\ player.profile.birth_date # None
    /\ player.profile.college # None
    /\ player.profile.draft_year # None
    /\ player.profile.hof_induction_year # None

\* The column of each stat field: the one its read names, and the
\* interception-touchdown column for the field that has no read.
ColumnOf(field) ==
    IF \E i \in 1..Len(StatReads) : StatReads[i].field = field
    THEN StatReads[CHOOSE i \in 1..Len(StatReads) : StatReads[i].field = field].column
    ELSE "def_int_td"
TypeOf(field) ==
    IF \E i \in 1..Len(StatReads) : StatReads[i].field = field
    THEN StatReads[CHOOSE i \in 1..Len(StatReads) : StatReads[i].field = field].type
    ELSE "int"
IsZero(v) == v.t \in {"int", "float"} /\ v.n = 0

\* C9: in the record of a row, every stat field is zero when its column's
\* cell is absent or empty, and the typed value of the cell's text otherwise.
C9_StatFieldsFollowTheirColumns ==
    (/\ pc = "next_season"
     /\ response.kind = "gamelog"
     /\ response.stats.present
     /\ Len(player.game_stats) = Len(GamesOf(response))) =>
        \A k \in 1..Len(player.game_stats) : \A f \in StatFields :
            LET cell == GamesOf(response)[k].cells[ColumnOf(f)]
                v == player.game_stats[k][f]
            IN IF ~cell.present \/ cell.contents = <<>> THEN IsZero(v)
               ELSE IF TypeOf(f) = "int" THEN v = IntOf(cell.contents[1])
               ELSE v = FloatOf(cell.contents[1])

DraftFields == {"draft_team", "draft_round", "draft_position", "draft_year"}

\* C10: in every profile of the profile directory the four draft fields are
\* all null or all set.
C10_DraftAllOrNothing ==
    \A f \in DOMAIN profile_dir :
        \/ \A d \in DraftFields : profile_dir[f][d] = None
        \/ \A d \in DraftFields : profile_dir[f][d] # None

C10_Witness ==
    /\ pc = "next_player"
    /\ raised_at = "parse_profile"
    /\ player.profile.draft_team # None
    /\ player.profile.draft_round # None
    /\ player.profile.draft_position = None
    /\ \E f \in DOMAIN profile_dir : profile_dir[f].draft_year # None

\* The (player_id, game_id) pairs of a list of records, in order.
KeysOf(game_stats) ==
    [k \in 1..Len(game_stats) |-> <<game_stats[k].player_id, game_stats[k].game_id>>]
NoKeyTwice(keys) == \A i, j \in 1..Len(keys) : i # j => keys[i] # keys[j]
\* The pairs the rows of a season page stand for, for the player with identifier id.
RowKeys(page, id) ==
    [k \in 1..Len(GamesOf(page)) |-> <<PyInt(id), PyStr(GameId(GamesOf(page)[k].href))>>]

C12_NoRegularTableNoRecords ==
    [][(pc = "parse_gamelog" /\ ~response.stats.present) =>
          /\ scrape_season_gamelog(response, player.game_stats, player.player_id,
                                   Head(seasons_left).year).ret = "False"
          /\ player'.game_stats = player.game_stats
          /\ pc' = "next_season"
          /\ seasons_left' = Tail(seasons_left)]_vars

C12_Witness ==
    /\ pc = "next_season"
    /\ response.kind = "gamelog"
    /\ ~response.stats.present
    /\ response.playoffs.present
    /\ Len(response.playoffs.rows) > 0
    /\ Len(fetched) = 3
    /\ Len(player.game_stats) = 2

\* C13: the scan of a profile page reads the label of a block only at an
\* index inside the block sequence (indices count from 0).
C13_LabelReadsInsideTheSequence ==
    (pc \in {"next_season", "except"} /\ response.kind = "profile") =>
        LET reads == scrape_profile(response, player.player_id).label_reads IN
        \A k \in 1..Len(reads) : reads[k] < Len(response.blocks)

Markers == {"Career", "Postseason"}
\* The game-log URLs of the entries of a season list that are no markers, in
\* list order.
UrlsToFetch(seasons) ==
    LET kept == SelectSeq(seasons, LAMBDA season : season.year \notin Markers) IN
    [k \in 1..Len(kept) |-> kept[k].gamelog_url]
IsPrefix(a, b) == Len(a) <= Len(b) /\ a = SubSeq(b, 1, Len(a))

\* C14: the first page fetched for a player is the profile page and no
\* game-log page is fetched before the season index is extracted; the index
\* gives an empty season list unless its first entry is "Career"; the
\* game-log fetches are those of the entries that are neither "Career" nor
\* "Postseason", one each and in index order, all of them once
\* scrape_player_stats has completed.
C14_GamelogsFetchedInIndexOrder ==
    /\ [](/\ fetched[1] = player.profile_url
          /\ pc = "parse_profile" => Len(fetched) = 1
          /\ IsPrefix(Tail(fetched), UrlsToFetch(player.seasons_with_stats))
          /\ pc = "save_profile" =>
                Tail(fetched) = UrlsToFetch(player.seasons_with_stats))
    /\ [][(pc = "parse_profile" /\ pc' = "next_season") =>
            LET index == response.nav
                seasons == player'.seasons_with_stats
            IN IF index # <<>> /\ index[1].year = "Career"
               THEN /\ Len(seasons) = Len(index)
                    /\ \A i \in 1..Len(index) :
                          /\ seasons[i].year = index[i].year
                          /\ seasons[i].gamelog_url = BASE_URL(index[i].href)
               ELSE seasons = <<>>]_vars

C14_Witness ==
    /\ pc = "save_profile"
    /\ Len(player.seasons_with_stats) = 3
    /\ player.seasons_with_stats[2].year = "2016"
    /\ player.seasons_with_stats[3].year = "2015"
    /\ fetched = <<player.profile_url, BASE_URL(NavEntry("2016").href),
                   BASE_URL(NavEntry("2015").href)>>

\* The player being processed has an artifact written in this run.
WrittenForCurrentPlayer == \E i \in 1..Len(persisted) : persisted[i].visit = Len(visited)

\* C15: while a player is fetched and extracted, and when that has failed,
\* nothing is written for the player and the two directories stay as they
\* are; after the failure the run goes on to the next player or ends, never
\* to a save; the directories change only in the two save steps, which are
\* reached only when scrape_player_stats has gone through all seasons.
C15_FailedPlayerLeavesTheStoreUntouched ==
    /\ [](pc \in TryBlock \cup {"except"} => ~WrittenForCurrentPlayer)
    /\ [][(pc \in TryBlock \cup {"except"}) => UNCHANGED <<profile_dir, stats_dir>>]_vars
    /\ [][pc = "except" => pc' \in {"next_player", "raised"}]_vars
    /\ [][(pc # "start" /\ <<profile_dir, stats_dir>>' # <<profile_dir, stats_dir>>) =>
             pc \in {"save_profile", "save_stats"}]_vars
    /\ [][(pc # "save_profile" /\ pc' = "save_profile") =>
             (pc = "next_season" /\ seasons_left = <<>>)]_vars

C15_Witness ==
    /\ pc = "next_player"
    /\ raised_at = "parse_gamelog"
    /\ exc = "none"
    /\ Len(visited) = 2
    /\ Len(player.game_stats) = 0
    /\ player.profile.name # None
    /\ Len(persisted) = 2
    /\ ~WrittenForCurrentPlayer

\* Visit k of the run ended with both artifacts written.
Saved(k) == \E i \in 1..Len(persisted) :
                persisted[i].visit = k /\ persisted[i].dir = STATS_DIR
PersistedIds == {persisted[i].id : i \in 1..Len(persisted)}
PersistedVisits == {persisted[i].visit : i \in 1..Len(persisted)}

\* C16: the first player processed gets first_player_id, the player processed
\* after a saved one the next identifier and the player processed after a
\* failed one the same identifier; the identifiers of the k players
\* persisted are first_player_id, ..., first_player_id + k - 1.
C16_SkippedPlayerConsumesNoIdentifier ==
    /\ Len(visited) > 0 => visited[1] = first_player_id
    /\ \A k \in 1..(Len(visited) - 1) :
          visited[k + 1] = IF Saved(k) THEN visited[k] + 1 ELSE visited[k]
    /\ PersistedIds =
          first_player_id..(first_player_id + Cardinality(PersistedVisits) - 1)

C16_Witness ==
    /\ pc = "next_player"
    /\ Len(visited) = 2
    /\ ~Saved(1)
    /\ Saved(2)
    /\ visited[2] = visited[1]
    /\ PersistedIds = {first_player_id}

====
